---- MODULE Spec2Model ----
(***************************************************************************)
(* Model of the MCP task server: the tool dispatcher (handle_call_tool and *)
(* the ten handlers), the resource resolver (handle_read_resource) and the *)
(* TaskDatabase layer they call (src/src/mcp_server.py,                    *)
(* src/src/database.py), with the life cycle of MCPTaskServer.run.         *)
(*                                                                         *)
(* Spec serves tool and resource requests one at a time, SpecGuard the     *)
(* free-form query tool over every statement, SpecResource the resource    *)
(* resolver over every URI, SpecPool concurrent dispatches on the          *)
(* connection pool, SpecDatabase the TaskDatabase methods called directly  *)
(* and SpecRun / SpecRunFair run() from start() to stop().                 *)
(*                                                                         *)
(* Python values are modelled as follows.  Text is a TLA+ string and an    *)
(* f-string is a concatenation (\o).  None is the empty sequence and a     *)
(* present optional value x is <<x>>.  A dict from the transport           *)
(* (arguments) is a function whose domain is the set of keys present.      *)
(* A raised exception is a record [type, msg] with str(e) = msg.           *)
(***************************************************************************)
EXTENDS Integers, Sequences, FiniteSets, TLC

VARIABLES
    pool,        \* TaskDatabase.pool: "None" until connect() has succeeded,
                 \* then the pool, "open" or (after disconnect()) "closed"
    tasks,       \* table tasks: id -> row
    nextId,      \* the serial that numbers the next inserted task
    comments,    \* table task_comments, in insertion order
    request,     \* the request the server handled last
    response,    \* what that request's handler gave back to the transport
    dbCalls,     \* the TaskDatabase methods that request invoked, in order
    pc,          \* concurrent dispatches: where each one is
    held,        \* concurrent dispatches: pooled connections each one holds
    inUse,       \* connections of the pool that are acquired
    run          \* MCPTaskServer.run: where it is (stage), how often start()
                 \* returned, the transport loop was entered and stop() was
                 \* called (starts, loops, stops) and how the loop was left (exit)

vars ==
    <<pool, tasks, nextId, comments, request, response, dbCalls, pc, held, inUse, run>>

(***************************************************************************)
(* Bounds of the model.                                                    *)
(***************************************************************************)
\* tasks that may ever be inserted (the serial is capped here)
MaxTasks == 2
\* comments that may ever be inserted
MaxComments == 1
\* dispatches in flight at once, beyond the pool's max_size
ExtraDispatches == 1

(***************************************************************************)
(* Program constants.                                                      *)
(***************************************************************************)
max_size == 10

(***************************************************************************)
(* Python values.                                                          *)
(***************************************************************************)
None == <<>>
Some(x) == <<x>>

\* dict.get(key): the value, or None
Get(d, key) == IF key \in DOMAIN d THEN Some(d[key]) ELSE None

\* dict.get(key, default) that gives the default whatever the dict holds (mutant)
GetDefault_ignores_key(d, key, default) == default

\* dict.get(key, default)
GetDefault(d, key, default) == IF key \in DOMAIN d THEN d[key] ELSE default

\* truth value of an optional string: None and "" are false
Truthy(opt) == opt # None /\ opt[1] # ""

Exc(type, msg) == [type |-> type, msg |-> msg]

\* KeyError(key): str() of it is the repr of the key
KeyError(key) == Exc("KeyError", "'" \o key \o "'")

NoFault == Exc("", "")

(***************************************************************************)
(* str methods used by the handlers.                                       *)
(***************************************************************************)
Whitespace == {" ", "\t", "\n", "\r"}

RECURSIVE lstrip(_)
lstrip(s) ==
    IF Len(s) > 0 /\ SubSeq(s, 1, 1) \in Whitespace
    THEN lstrip(SubSeq(s, 2, Len(s)))
    ELSE s

RECURSIVE rstrip(_)
rstrip(s) ==
    IF Len(s) > 0 /\ SubSeq(s, Len(s), Len(s)) \in Whitespace
    THEN rstrip(SubSeq(s, 1, Len(s) - 1))
    ELSE s

\* str.strip()
strip(s) == rstrip(lstrip(s))

upperChar(c) ==
    CASE c = "a" -> "A" [] c = "c" -> "C" [] c = "d" -> "D" [] c = "e" -> "E"
      [] c = "f" -> "F" [] c = "k" -> "K" [] c = "l" -> "L" [] c = "m" -> "M"
      [] c = "o" -> "O" [] c = "r" -> "R" [] c = "s" -> "S" [] c = "t" -> "T"
      [] c = "x" -> "X" [] OTHER -> c

\* str.upper(), on the letters the model's statements use
RECURSIVE upper(_)
upper(s) ==
    IF Len(s) = 0 THEN ""
    ELSE upperChar(SubSeq(s, 1, 1)) \o upper(SubSeq(s, 2, Len(s)))

\* str.startswith(prefix)
startswith(s, prefix) ==
    Len(s) >= Len(prefix) /\ SubSeq(s, 1, Len(prefix)) = prefix

\* the index of the first occurrence of sep in s at or after i, 0 if none
RECURSIVE find(_, _, _)
find(s, sep, i) ==
    IF i + Len(sep) - 1 > Len(s) THEN 0
    ELSE IF SubSeq(s, i, i + Len(sep) - 1) = sep THEN i
    ELSE find(s, sep, i + 1)

\* sub in s
Contains(s, sub) == find(s, sub, 1) # 0

\* str.split(sep): the parts of s between the occurrences of sep
RECURSIVE split(_, _)
split(s, sep) ==
    LET i == find(s, sep, 1) IN
    IF i = 0 THEN <<s>>
    ELSE <<SubSeq(s, 1, i - 1)>> \o split(SubSeq(s, i + Len(sep), Len(s)), sep)

\* sep.join(parts)
RECURSIVE join(_, _)
join(sep, parts) ==
    IF parts = <<>> THEN ""
    ELSE IF Len(parts) = 1 THEN parts[1]
    ELSE parts[1] \o sep \o join(sep, Tail(parts))

(***************************************************************************)
(* The storage backend's content that no operation of the server changes.  *)
(***************************************************************************)
\* table categories
CategoriesTable ==
    << [id |-> 1, name |-> "bug", description |-> None, color |-> "#f00"],
       [id |-> 2, name |-> "work", description |-> Some("Work items"), color |-> "#00f"] >>

\* information_schema.columns of schema public, ordered by table and position
ColumnsCatalog ==
    << [table_name |-> "categories", column_name |-> "id", data_type |-> "integer",
        is_nullable |-> "NO", column_default |-> Some("nextval('categories_id_seq')")],
       [table_name |-> "categories", column_name |-> "name", data_type |-> "text",
        is_nullable |-> "NO", column_default |-> None],
       [table_name |-> "tasks", column_name |-> "id", data_type |-> "integer",
        is_nullable |-> "NO", column_default |-> Some("nextval('tasks_id_seq')")],
       [table_name |-> "tasks", column_name |-> "description", data_type |-> "text",
        is_nullable |-> "YES", column_default |-> None] >>

\* what a storage call can fail with once a connection is acquired
StorageFaults == { Exc("PostgresError", "connection is closed") }

Faults == {NoFault} \cup StorageFaults

(***************************************************************************)
(* TaskDatabase (src/src/database.py).  d is the database as the call      *)
(* finds it, [pool, tasks, nextId, comments]; fault is what the backend    *)
(* answers the statement with (NoFault: it executes it).  A call yields    *)
(* [raised, exc, value, db]: whether it raised, the exception, the value   *)
(* returned and the database afterwards.                                   *)
(***************************************************************************)
DbRaise(e, d) == [raised |-> TRUE, exc |-> e, value |-> None, db |-> d]

DbReturn(v, d) == [raised |-> FALSE, exc |-> NoFault, value |-> v, db |-> d]

\* what asyncpg.create_pool can fail with
ConnectFaults == { Exc("OSError", "connection refused") }

\* connect: self.pool is assigned only when create_pool returned
connect(d, fault) ==
    IF fault # NoFault THEN DbRaise(fault, d)
    ELSE DbReturn(None, [d EXCEPT !.pool = "open"])

\* disconnect without "if self.pool": None has no close() (mutant)
disconnect_unguarded(d) ==
    IF d.pool # "None" THEN DbReturn(None, [d EXCEPT !.pool = "closed"])
    ELSE DbRaise(Exc("AttributeError", "'NoneType' object has no attribute 'close'"), d)

\* disconnect: closes the pool if there is one; self.pool stays assigned
disconnect(d) ==
    IF d.pool # "None" THEN DbReturn(None, [d EXCEPT !.pool = "closed"])
    ELSE DbReturn(None, d)

\* pool.acquire() on a pool that was closed
PoolClosed == Exc("InterfaceError", "pool is closed")

\* execute_query without "if not self.pool": None has no acquire() (mutant)
execute_query_unguarded(d, fault, rows, after) ==
    IF d.pool = "None"
    THEN DbRaise(Exc("AttributeError", "'NoneType' object has no attribute 'acquire'"), d)
    ELSE IF d.pool = "closed" THEN DbRaise(PoolClosed, d)
    ELSE IF fault # NoFault
    THEN DbRaise(fault, d)
    ELSE DbReturn(rows, after)

\* execute_query: rows is what the statement selects, after the database
\* once it has run
execute_query(d, fault, rows, after) ==
    IF d.pool = "None"
    THEN DbRaise(Exc("RuntimeError", "Database not connected"), d)
    ELSE IF d.pool = "closed" THEN DbRaise(PoolClosed, d)
    ELSE IF fault # NoFault
    THEN DbRaise(fault, d)
    ELSE DbReturn(rows, after)

\* execute_command: status is the command tag the backend answers
execute_command(d, fault, status, after) ==
    IF d.pool = "None"
    THEN DbRaise(Exc("RuntimeError", "Database not connected"), d)
    ELSE IF d.pool = "closed" THEN DbRaise(PoolClosed, d)
    ELSE IF fault # NoFault
    THEN DbRaise(fault, d)
    ELSE DbReturn(status, after)

Max(S) == CHOOSE m \in S : \A n \in S : n <= m

\* t.* with the aggregated category names (no task has a category: the
\* server has no operation that links one)
TaskWithCategories(row) == [categories |-> <<>>] @@ row

\* the rows of the tasks whose id is in S, newest first (created_at DESC)
RECURSIVE SelectTasks(_, _)
SelectTasks(d, S) ==
    IF S = {} THEN <<>>
    ELSE LET m == Max(S) IN
         <<TaskWithCategories(d.tasks[m])>> \o SelectTasks(d, S \ {m})

get_all_tasks(d, fault) ==
    execute_query(d, fault, SelectTasks(d, DOMAIN d.tasks), d)

\* results[0] without the "if results" (mutant)
get_task_by_id_unchecked(d, fault, task_id) ==
    LET r == execute_query(d, fault,
                 SelectTasks(d, {i \in DOMAIN d.tasks : i = task_id}), d)
    IN IF r.raised THEN r
       ELSE IF r.value # <<>> THEN DbReturn(Some(r.value[1]), r.db)
       ELSE DbRaise(Exc("IndexError", "list index out of range"), r.db)

get_task_by_id(d, fault, task_id) ==
    LET r == execute_query(d, fault,
                 SelectTasks(d, {i \in DOMAIN d.tasks : i = task_id}), d)
    IN IF r.raised THEN r
       ELSE DbReturn(IF r.value # <<>> THEN Some(r.value[1]) ELSE None, r.db)

get_tasks_by_status(d, fault, status) ==
    execute_query(d, fault,
        SelectTasks(d, {i \in DOMAIN d.tasks : d.tasks[i].status = status}), d)

\* the row INSERT INTO tasks ... RETURNING * gives: the serial id and the
\* columns' defaults besides the six values passed
InsertedTask(d, title, description, priority, assigned_to, due_date, tags) ==
    [id |-> d.nextId, title |-> title, description |-> description,
     status |-> "pending", priority |-> priority, assigned_to |-> assigned_to,
     due_date |-> due_date, tags |-> tags,
     created_at |-> d.nextId, updated_at |-> d.nextId]

\* an insert that gives back the stored task of the same title, if there is
\* one, instead of adding a row (mutant)
create_task_deduplicated(d, fault, title, description, priority, assigned_to, due_date, tags) ==
    LET same == {i \in DOMAIN d.tasks : d.tasks[i].title = title}
        row == InsertedTask(d, title, description, priority, assigned_to,
                            due_date, IF tags # <<>> THEN tags ELSE <<>>)
        after == [d EXCEPT !.tasks = (d.nextId :> row) @@ d.tasks,
                           !.nextId = d.nextId + 1]
        r == IF same # {}
             THEN execute_query(d, fault, <<d.tasks[Max(same)]>>, d)
             ELSE execute_query(d, fault, <<row>>, after)
    IN IF r.raised THEN r
       ELSE DbReturn(IF r.value # <<>> THEN Some(r.value[1]) ELSE None, r.db)

create_task(d, fault, title, description, priority, assigned_to, due_date, tags) ==
    LET row == InsertedTask(d, title, description, priority, assigned_to,
                            due_date, IF tags # <<>> THEN tags ELSE <<>>)
        after == [d EXCEPT !.tasks = (d.nextId :> row) @@ d.tasks,
                           !.nextId = d.nextId + 1]
        r == execute_query(d, fault, <<row>>, after)
    IN IF r.raised THEN r
       ELSE DbReturn(IF r.value # <<>> THEN Some(r.value[1]) ELSE None, r.db)

\* "UPDATE n" / "DELETE n": the command tag counts the rows affected
CommandTag(verb, n) == verb \o " " \o ToString(n)

\* the UPDATE without its WHERE clause (mutant)
update_task_status_every_row(d, fault, task_id, status) ==
    LET hit == DOMAIN d.tasks
        after == [d EXCEPT !.tasks =
                     [i \in DOMAIN d.tasks |-> [d.tasks[i] EXCEPT !.status = status]]]
        r == execute_command(d, fault, CommandTag("UPDATE", Cardinality(hit)), after)
    IN IF r.raised THEN r
       ELSE DbReturn(Contains(r.value, "UPDATE 1"), r.db)

update_task_status(d, fault, task_id, status) ==
    LET hit == {i \in DOMAIN d.tasks : i = task_id}
        after == [d EXCEPT !.tasks =
                     [i \in DOMAIN d.tasks |->
                        IF i \in hit THEN [d.tasks[i] EXCEPT !.status = status]
                        ELSE d.tasks[i]]]
        r == execute_command(d, fault, CommandTag("UPDATE", Cardinality(hit)), after)
    IN IF r.raised THEN r
       ELSE DbReturn(Contains(r.value, "UPDATE 1"), r.db)

\* success read off the verb of the command tag alone (mutant)
delete_task_any_count(d, fault, task_id) ==
    LET hit == {i \in DOMAIN d.tasks : i = task_id}
        after == [d EXCEPT !.tasks = [i \in DOMAIN d.tasks \ hit |-> d.tasks[i]]]
        r == execute_command(d, fault, CommandTag("DELETE", Cardinality(hit)), after)
    IN IF r.raised THEN r
       ELSE DbReturn(Contains(r.value, "DELETE"), r.db)

delete_task(d, fault, task_id) ==
    LET hit == {i \in DOMAIN d.tasks : i = task_id}
        after == [d EXCEPT !.tasks = [i \in DOMAIN d.tasks \ hit |-> d.tasks[i]]]
        r == execute_command(d, fault, CommandTag("DELETE", Cardinality(hit)), after)
    IN IF r.raised THEN r
       ELSE DbReturn(Contains(r.value, "DELETE 1"), r.db)

get_task_comments(d, fault, task_id) ==
    execute_query(d, fault,
        SelectSeq(d.comments, LAMBDA c : c.task_id = task_id), d)

add_task_comment(d, fault, task_id, comment, author) ==
    LET row == [id |-> Len(d.comments) + 1, task_id |-> task_id,
                comment |-> comment, author |-> author,
                created_at |-> Len(d.comments) + 1]
        after == [d EXCEPT !.comments = Append(d.comments, row)]
        r == execute_query(d, fault, <<row>>, after)
    IN IF r.raised THEN r
       ELSE DbReturn(IF r.value # <<>> THEN Some(r.value[1]) ELSE None, r.db)

get_all_categories(d, fault) ==
    execute_query(d, fault, CategoriesTable, d)

\* the tables of the catalogue, in the order their first column appears
RECURSIVE TableNames(_)
TableNames(columns) ==
    IF columns = <<>> THEN <<>>
    ELSE LET rest == TableNames(SubSeq(columns, 1, Len(columns) - 1))
             t == columns[Len(columns)].table_name
         IN IF \E i \in 1..Len(rest) : rest[i] = t THEN rest ELSE Append(rest, t)

ColumnDescriptor(col) ==
    [name |-> col.column_name, type |-> col.data_type,
     nullable |-> (col.is_nullable = "YES"), default |-> col.column_default]

RECURSIVE MapDescriptors(_)
MapDescriptors(columns) ==
    IF columns = <<>> THEN <<>>
    ELSE <<ColumnDescriptor(columns[1])>> \o MapDescriptors(Tail(columns))

\* get_database_schema: the dict as the sequence of its items
\* <<table, descriptors>>, in insertion order
GroupByTable(columns) ==
    LET names == TableNames(columns) IN
    [k \in 1..Len(names) |->
        <<names[k],
          MapDescriptors(SelectSeq(columns, LAMBDA c : c.table_name = names[k]))>>]

get_database_schema(d, fault) ==
    LET r == execute_query(d, fault, ColumnsCatalog, d)
    IN IF r.raised THEN r ELSE DbReturn(GroupByTable(r.value), r.db)

(***************************************************************************)
(* json.dumps(value, default=str, indent=2).  A JSON value is a record     *)
(* tagged by t: null, str, int, bool, arr (a sequence of values) and obj   *)
(* (a sequence of <<key, value>> in the dict's order).                     *)
(***************************************************************************)
JNull == [t |-> "null"]
JStr(s) == [t |-> "str", v |-> s]
JInt(n) == [t |-> "int", v |-> n]
JBool(b) == [t |-> "bool", v |-> b]
JArr(items) == [t |-> "arr", v |-> items]
JObj(pairs) == [t |-> "obj", v |-> pairs]

JOptStr(opt) == IF opt = None THEN JNull ELSE JStr(opt[1])

RECURSIVE json_dumps(_, _)
RECURSIVE json_items(_, _, _)
\* the items of an array or an object, one per line at indentation ind
json_items(kind, items, ind) ==
    LET one == IF kind = "arr" THEN json_dumps(items[1], ind)
               ELSE "\"" \o items[1][1] \o "\": " \o json_dumps(items[1][2], ind)
    IN IF Len(items) = 1 THEN ind \o one
       ELSE ind \o one \o ",\n" \o json_items(kind, Tail(items), ind)

\* v serialized with the enclosing line indented by ind
json_dumps(v, ind) ==
    CASE v.t = "null" -> "null"
      [] v.t = "str" -> "\"" \o v.v \o "\""
      [] v.t = "int" -> ToString(v.v)
      [] v.t = "bool" -> IF v.v THEN "true" ELSE "false"
      [] v.t = "arr" ->
           IF v.v = <<>> THEN "[]"
           ELSE "[\n" \o json_items("arr", v.v, ind \o "  ") \o "\n" \o ind \o "]"
      [] v.t = "obj" ->
           IF v.v = <<>> THEN "{}"
           ELSE "{\n" \o json_items("obj", v.v, ind \o "  ") \o "\n" \o ind \o "}"

RECURSIVE JStrings(_)
JStrings(strs) ==
    IF strs = <<>> THEN <<>> ELSE <<JStr(strs[1])>> \o JStrings(Tail(strs))

\* a task row as json.dumps sees it: the timestamps go through default=str
JTask(task) ==
    JObj(<< <<"id", JInt(task.id)>>, <<"title", JStr(task.title)>>,
            <<"description", JOptStr(task.description)>>,
            <<"status", JStr(task.status)>>, <<"priority", JStr(task.priority)>>,
            <<"assigned_to", JOptStr(task.assigned_to)>>,
            <<"due_date", JOptStr(task.due_date)>>,
            <<"tags", JArr(JStrings(task.tags))>>,
            <<"created_at", JStr(ToString(task.created_at))>>,
            <<"updated_at", JStr(ToString(task.updated_at))>>,
            <<"categories", JArr(JStrings(task.categories))>> >>)

RECURSIVE JTasks(_)
JTasks(rows) ==
    IF rows = <<>> THEN <<>> ELSE <<JTask(rows[1])>> \o JTasks(Tail(rows))

JColumn(col) ==
    JObj(<< <<"name", JStr(col.name)>>, <<"type", JStr(col.type)>>,
            <<"nullable", JBool(col.nullable)>>,
            <<"default", JOptStr(col.default)>> >>)

RECURSIVE JColumns(_)
JColumns(cols) ==
    IF cols = <<>> THEN <<>> ELSE <<JColumn(cols[1])>> \o JColumns(Tail(cols))

RECURSIVE JSchemaItems(_)
JSchemaItems(schema) ==
    IF schema = <<>> THEN <<>>
    ELSE << <<schema[1][1], JArr(JColumns(schema[1][2]))>> >>
         \o JSchemaItems(Tail(schema))

\* the rows of a free-form query: dicts of one integer column
RECURSIVE JRows(_)
JRows(rows) ==
    IF rows = <<>> THEN <<>>
    ELSE <<JObj(<< <<"count", JInt(rows[1].count)>> >>)>> \o JRows(Tail(rows))

(***************************************************************************)
(* The handlers' renderings (src/src/mcp_server.py).                       *)
(***************************************************************************)
\* f"{value}" of an optional string
StrOpt(opt) == IF opt = None THEN "None" ELSE opt[1]

\* value or default
OrElse(opt, default) == IF Truthy(opt) THEN opt[1] ELSE default

\* one task of list_tasks
RenderListedTask(task) ==
    "ID: " \o ToString(task.id) \o "\n"
    \o "Title: " \o task.title \o "\n"
    \o "Status: " \o task.status \o "\n"
    \o "Priority: " \o task.priority \o "\n"
    \o (IF Truthy(task.assigned_to)
        THEN "Assigned to: " \o task.assigned_to[1] \o "\n" ELSE "")
    \o (IF task.categories # <<>>
        THEN "Categories: " \o join(", ", task.categories) \o "\n" ELSE "")
    \o "Created: " \o ToString(task.created_at) \o "\n"
    \o "---\n"

RECURSIVE RenderListedTasks(_)
RenderListedTasks(rows) ==
    IF rows = <<>> THEN ""
    ELSE RenderListedTask(rows[1]) \o RenderListedTasks(Tail(rows))

RenderTaskList(rows) ==
    IF rows = <<>> THEN "No tasks found." ELSE RenderListedTasks(rows)

RenderTaskDetails(task) ==
    "Task Details:\n\n"
    \o "ID: " \o ToString(task.id) \o "\n"
    \o "Title: " \o task.title \o "\n"
    \o "Description: " \o OrElse(task.description, "No description") \o "\n"
    \o "Status: " \o task.status \o "\n"
    \o "Priority: " \o task.priority \o "\n"
    \o "Assigned to: " \o OrElse(task.assigned_to, "Unassigned") \o "\n"
    \o "Categories: "
    \o (IF task.categories # <<>> THEN join(", ", task.categories) ELSE "None") \o "\n"
    \o "Tags: " \o (IF task.tags # <<>> THEN join(", ", task.tags) ELSE "None") \o "\n"
    \o "Created: " \o ToString(task.created_at) \o "\n"
    \o "Updated: " \o ToString(task.updated_at) \o "\n"
    \o (IF Truthy(task.due_date) THEN "Due date: " \o task.due_date[1] \o "\n" ELSE "")

RenderCreatedTask(task) ==
    "Task created successfully!\n\n"
    \o "ID: " \o ToString(task.id) \o "\n"
    \o "Title: " \o task.title \o "\n"
    \o "Status: " \o task.status \o "\n"
    \o "Priority: " \o task.priority \o "\n"

RenderAddedComment(task_id, comment_obj) ==
    "Comment added to task " \o ToString(task_id) \o ":\n"
    \o "Author: " \o comment_obj.author \o "\n"
    \o "Comment: " \o comment_obj.comment \o "\n"
    \o "Created: " \o ToString(comment_obj.created_at)

RECURSIVE RenderComments(_)
RenderComments(rows) ==
    IF rows = <<>> THEN ""
    ELSE "Author: " \o rows[1].author \o "\n"
         \o "Date: " \o ToString(rows[1].created_at) \o "\n"
         \o "Comment: " \o rows[1].comment \o "\n"
         \o "---\n"
         \o RenderComments(Tail(rows))

RECURSIVE RenderCategories(_)
RenderCategories(rows) ==
    IF rows = <<>> THEN ""
    ELSE "ID: " \o ToString(rows[1].id) \o "\n"
         \o "Name: " \o rows[1].name \o "\n"
         \o "Description: " \o OrElse(rows[1].description, "No description") \o "\n"
         \o "Color: " \o rows[1].color \o "\n"
         \o "---\n"
         \o RenderCategories(Tail(rows))

RECURSIVE RenderColumns(_)
RenderColumns(cols) ==
    IF cols = <<>> THEN ""
    ELSE "  - " \o cols[1].name \o ": " \o cols[1].type
         \o (IF cols[1].nullable THEN " (nullable)" ELSE " (not null)")
         \o (IF Truthy(cols[1].default) THEN " default: " \o cols[1].default[1] ELSE "")
         \o "\n"
         \o RenderColumns(Tail(cols))

RECURSIVE RenderSchema(_)
RenderSchema(schema) ==
    IF schema = <<>> THEN ""
    ELSE "Table: " \o schema[1][1] \o "\n"
         \o RenderColumns(schema[1][2])
         \o "\n"
         \o RenderSchema(Tail(schema))

(***************************************************************************)
(* The tool handlers (src/src/mcp_server.py).  A handler yields            *)
(* [raised, exc, text, calls, db]: whether it raised, the exception, the   *)
(* text of the TextContent it returned, the TaskDatabase calls it made     *)
(* (each with the exception the call raised, NoFault if none) and the      *)
(* database afterwards.                                                    *)
(***************************************************************************)
Call(op, args, r) == [op |-> op, args |-> args, exc |-> r.exc]

HRaise(e, calls, d) ==
    [raised |-> TRUE, exc |-> e, text |-> "", calls |-> calls, db |-> d]

HReturn(text, calls, d) ==
    [raised |-> FALSE, exc |-> NoFault, text |-> text, calls |-> calls, db |-> d]

handle_list_tasks(arguments, d, fault) ==
    LET status == Get(arguments, "status") IN
    IF Truthy(status)
    THEN LET r == get_tasks_by_status(d, fault, status[1])
             calls == <<Call("get_tasks_by_status", <<status[1]>>, r)>>
         IN IF r.raised THEN HRaise(r.exc, calls, r.db)
            ELSE HReturn("Tasks with status '" \o status[1] \o "':\n\n"
                         \o RenderTaskList(r.value), calls, r.db)
    ELSE LET r == get_all_tasks(d, fault)
             calls == <<Call("get_all_tasks", <<>>, r)>>
         IN IF r.raised THEN HRaise(r.exc, calls, r.db)
            ELSE HReturn("All tasks:\n\n" \o RenderTaskList(r.value), calls, r.db)

handle_get_task(arguments, d, fault) ==
    IF "task_id" \notin DOMAIN arguments THEN HRaise(KeyError("task_id"), <<>>, d)
    ELSE
    LET task_id == arguments["task_id"]
        r == get_task_by_id(d, fault, task_id)
        calls == <<Call("get_task_by_id", <<task_id>>, r)>>
    IN IF r.raised THEN HRaise(r.exc, calls, r.db)
       ELSE IF r.value = None
       THEN HReturn("Task with ID " \o ToString(task_id) \o " not found.", calls, r.db)
       ELSE HReturn(RenderTaskDetails(r.value[1]), calls, r.db)

handle_create_task(arguments, d, fault) ==
    IF "title" \notin DOMAIN arguments THEN HRaise(KeyError("title"), <<>>, d)
    ELSE
    LET title == arguments["title"]
        description == Get(arguments, "description")
        priority == GetDefault(arguments, "priority", "medium")
        assigned_to == Get(arguments, "assigned_to")
        tags == GetDefault(arguments, "tags", <<>>)
        r == create_task(d, fault, title, description, priority, assigned_to, None, tags)
        calls == <<Call("create_task",
                        <<title, description, priority, assigned_to, tags>>, r)>>
    IN IF r.raised THEN HRaise(r.exc, calls, r.db)
       ELSE IF r.value # None
       THEN HReturn(RenderCreatedTask(r.value[1]), calls, r.db)
       ELSE HReturn("Failed to create task.", calls, r.db)

handle_update_task_status(arguments, d, fault) ==
    IF "task_id" \notin DOMAIN arguments THEN HRaise(KeyError("task_id"), <<>>, d)
    ELSE IF "status" \notin DOMAIN arguments THEN HRaise(KeyError("status"), <<>>, d)
    ELSE
    LET task_id == arguments["task_id"]
        status == arguments["status"]
        r == update_task_status(d, fault, task_id, status)
        calls == <<Call("update_task_status", <<task_id, status>>, r)>>
    IN IF r.raised THEN HRaise(r.exc, calls, r.db)
       ELSE IF r.value
       THEN HReturn("Task " \o ToString(task_id) \o " status updated to '"
                    \o status \o "' successfully.", calls, r.db)
       ELSE HReturn("Failed to update task " \o ToString(task_id) \o " status.",
                    calls, r.db)

\* arguments.get("task_id") instead of arguments["task_id"] (mutant)
handle_delete_task_lenient(arguments, d, fault) ==
    LET task_id == GetDefault(arguments, "task_id", 0)
        r == delete_task(d, fault, task_id)
        calls == <<Call("delete_task", <<task_id>>, r)>>
    IN IF r.raised THEN HRaise(r.exc, calls, r.db)
       ELSE IF r.value
       THEN HReturn("Task " \o ToString(task_id) \o " deleted successfully.",
                    calls, r.db)
       ELSE HReturn("Failed to delete task " \o ToString(task_id) \o ".", calls, r.db)

handle_delete_task(arguments, d, fault) ==
    IF "task_id" \notin DOMAIN arguments THEN HRaise(KeyError("task_id"), <<>>, d)
    ELSE
    LET task_id == arguments["task_id"]
        r == delete_task(d, fault, task_id)
        calls == <<Call("delete_task", <<task_id>>, r)>>
    IN IF r.raised THEN HRaise(r.exc, calls, r.db)
       ELSE IF r.value
       THEN HReturn("Task " \o ToString(task_id) \o " deleted successfully.",
                    calls, r.db)
       ELSE HReturn("Failed to delete task " \o ToString(task_id) \o ".", calls, r.db)

handle_add_task_comment(arguments, d, fault) ==
    IF "task_id" \notin DOMAIN arguments THEN HRaise(KeyError("task_id"), <<>>, d)
    ELSE IF "comment" \notin DOMAIN arguments THEN HRaise(KeyError("comment"), <<>>, d)
    ELSE
    LET task_id == arguments["task_id"]
        comment == arguments["comment"]
        author == GetDefault(arguments, "author", "Anonymous")
        r == add_task_comment(d, fault, task_id, comment, author)
        calls == <<Call("add_task_comment", <<task_id, comment, author>>, r)>>
    IN IF r.raised THEN HRaise(r.exc, calls, r.db)
       ELSE IF r.value # None
       THEN HReturn(RenderAddedComment(task_id, r.value[1]), calls, r.db)
       ELSE HReturn("Failed to add comment to task " \o ToString(task_id) \o ".",
                    calls, r.db)

handle_get_task_comments(arguments, d, fault) ==
    IF "task_id" \notin DOMAIN arguments THEN HRaise(KeyError("task_id"), <<>>, d)
    ELSE
    LET task_id == arguments["task_id"]
        r == get_task_comments(d, fault, task_id)
        calls == <<Call("get_task_comments", <<task_id>>, r)>>
    IN IF r.raised THEN HRaise(r.exc, calls, r.db)
       ELSE IF r.value = <<>>
       THEN HReturn("No comments found for task " \o ToString(task_id) \o ".",
                    calls, r.db)
       ELSE HReturn("Comments for task " \o ToString(task_id) \o ":\n\n"
                    \o RenderComments(r.value), calls, r.db)

handle_list_categories(arguments, d, fault) ==
    LET r == get_all_categories(d, fault)
        calls == <<Call("get_all_categories", <<>>, r)>>
    IN IF r.raised THEN HRaise(r.exc, calls, r.db)
       ELSE IF r.value = <<>> THEN HReturn("No categories found.", calls, r.db)
       ELSE HReturn("Available categories:\n\n" \o RenderCategories(r.value),
                    calls, r.db)

\* the security check without the uppercasing (mutant)
is_select_case_sensitive(query) == startswith(query, "SELECT")

\* the security check of execute_query, on the stripped statement
is_select(query) == startswith(upper(query), "SELECT")

OnlySelectText == "Error: Only SELECT queries are allowed for security reasons."

\* rows: what the backend answers the statement with when it executes it
handle_execute_query(arguments, d, fault, rows) ==
    IF "query" \notin DOMAIN arguments THEN HRaise(KeyError("query"), <<>>, d)
    ELSE
    LET query == strip(arguments["query"]) IN
    IF ~is_select(query) THEN HReturn(OnlySelectText, <<>>, d)
    ELSE
    LET r == execute_query(d, fault, rows, d)
        calls == <<Call("execute_query", <<query>>, r)>>
    IN IF r.raised
       THEN HReturn("Query execution failed: " \o r.exc.msg, calls, r.db)
       ELSE IF r.value = <<>>
       THEN HReturn("Query executed successfully. No results returned.", calls, r.db)
       ELSE HReturn("Query Results (" \o ToString(Len(r.value)) \o " rows):\n\n"
                    \o json_dumps(JArr(JRows(r.value)), ""), calls, r.db)

handle_get_schema(arguments, d, fault) ==
    LET r == get_database_schema(d, fault)
        calls == <<Call("get_database_schema", <<>>, r)>>
    IN IF r.raised THEN HRaise(r.exc, calls, r.db)
       ELSE HReturn("Database Schema:\n\n" \o RenderSchema(r.value), calls, r.db)

\* handle_list_tools: the Tool entries it returns, in order, each with its
\* name and the required fields of its inputSchema
handle_list_tools ==
    << [name |-> "list_tasks", required |-> {}],
       [name |-> "get_task", required |-> {"task_id"}],
       [name |-> "create_task", required |-> {"title"}],
       [name |-> "update_task_status", required |-> {"task_id", "status"}],
       [name |-> "delete_task", required |-> {"task_id"}],
       [name |-> "add_task_comment", required |-> {"task_id", "comment"}],
       [name |-> "get_task_comments", required |-> {"task_id"}],
       [name |-> "list_categories", required |-> {}],
       [name |-> "execute_query", required |-> {"query"}],
       [name |-> "get_schema", required |-> {}] >>

\* the names handle_list_tools lists
ToolNames ==
    {"list_tasks", "get_task", "create_task", "update_task_status", "delete_task",
     "add_task_comment", "get_task_comments", "list_categories", "execute_query",
     "get_schema"}

\* the else branch of handle_call_tool, without the name (mutant)
unknown_tool_unnamed(name, d) == HRaise(Exc("ValueError", "Unknown tool"), <<>>, d)

\* the else branch of handle_call_tool
unknown_tool(name, d) ==
    HRaise(Exc("ValueError", "Unknown tool: " \o name), <<>>, d)

\* the if/elif chain without its last branch (mutant)
route_without_get_schema(name, arguments, d, fault, rows) ==
    CASE name = "list_tasks" -> handle_list_tasks(arguments, d, fault)
      [] name = "get_task" -> handle_get_task(arguments, d, fault)
      [] name = "create_task" -> handle_create_task(arguments, d, fault)
      [] name = "update_task_status" -> handle_update_task_status(arguments, d, fault)
      [] name = "delete_task" -> handle_delete_task(arguments, d, fault)
      [] name = "add_task_comment" -> handle_add_task_comment(arguments, d, fault)
      [] name = "get_task_comments" -> handle_get_task_comments(arguments, d, fault)
      [] name = "list_categories" -> handle_list_categories(arguments, d, fault)
      [] name = "execute_query" -> handle_execute_query(arguments, d, fault, rows)
      [] OTHER -> unknown_tool(name, d)

\* the if/elif chain of handle_call_tool
route(name, arguments, d, fault, rows) ==
    CASE name = "list_tasks" -> handle_list_tasks(arguments, d, fault)
      [] name = "get_task" -> handle_get_task(arguments, d, fault)
      [] name = "create_task" -> handle_create_task(arguments, d, fault)
      [] name = "update_task_status" -> handle_update_task_status(arguments, d, fault)
      [] name = "delete_task" -> handle_delete_task(arguments, d, fault)
      [] name = "add_task_comment" -> handle_add_task_comment(arguments, d, fault)
      [] name = "get_task_comments" -> handle_get_task_comments(arguments, d, fault)
      [] name = "list_categories" -> handle_list_categories(arguments, d, fault)
      [] name = "execute_query" -> handle_execute_query(arguments, d, fault, rows)
      [] name = "get_schema" -> handle_get_schema(arguments, d, fault)
      [] OTHER -> unknown_tool(name, d)

\* handle_call_tool without its except clause (mutant)
tool_error_propagates(r) == r

\* the except clause of handle_call_tool
tool_error(r) == HReturn("Error: " \o r.exc.msg, r.calls, r.db)

handle_call_tool(name, arguments, d, fault, rows) ==
    LET r == route(name, arguments, d, fault, rows)
    IN IF r.raised THEN tool_error(r) ELSE r

(***************************************************************************)
(* The resource resolver.                                                  *)
(***************************************************************************)
\* the last part of the URI instead of the second (mutant)
task_status_last(uri) == split(uri, "//")[Len(split(uri, "//"))]

\* uri.split("//")[1] of a task URI
task_status(uri) == split(uri, "//")[2]

\* any URI of the schema scheme (mutant)
is_schema_resource_any_path(uri) == startswith(uri, "schema://")

\* the URI of the schema resource
is_schema_resource(uri) == uri = "schema://database"

resolve(uri, d, fault) ==
    IF startswith(uri, "task://")
    THEN LET status == task_status(uri) IN
         IF status = "all"
         THEN LET r == get_all_tasks(d, fault)
                  calls == <<Call("get_all_tasks", <<>>, r)>>
              IN IF r.raised THEN HRaise(r.exc, calls, r.db)
                 ELSE HReturn(json_dumps(JArr(JTasks(r.value)), ""), calls, r.db)
         ELSE LET r == get_tasks_by_status(d, fault, status)
                  calls == <<Call("get_tasks_by_status", <<status>>, r)>>
              IN IF r.raised THEN HRaise(r.exc, calls, r.db)
                 ELSE HReturn(json_dumps(JArr(JTasks(r.value)), ""), calls, r.db)
    ELSE IF is_schema_resource(uri)
    THEN LET r == get_database_schema(d, fault)
             calls == <<Call("get_database_schema", <<>>, r)>>
         IN IF r.raised THEN HRaise(r.exc, calls, r.db)
            ELSE HReturn(json_dumps(JObj(JSchemaItems(r.value)), ""), calls, r.db)
    ELSE HRaise(Exc("ValueError", "Unknown resource: " \o uri), <<>>, d)

\* handle_read_resource without its except clause (mutant)
resource_error_propagates(r) == r

\* the except clause of handle_read_resource
resource_error(r) == HReturn("Error reading resource: " \o r.exc.msg, r.calls, r.db)

handle_read_resource(uri, d, fault) ==
    LET r == resolve(uri, d, fault)
    IN IF r.raised THEN resource_error(r) ELSE r

(***************************************************************************)
(* The requests the model sends.                                           *)
(***************************************************************************)
NoArgs == [k \in {} |-> ""]

\* identifiers asked for: those a task can have, and one no task ever has
TaskIdInputs == 1..(MaxTasks + 1)

StatusInputs == {"completed", "bogus"}

\* statements: a body between leading and trailing whitespace
StatementBodies ==
    {"SELECT * FROM tasks", "DELETE FROM tasks", "select 1", "SeLeCt 1", "SELECTED",
     "SELEC", "S ELECT", "", "-- x\nSELECT 1", "select 1; DELETE FROM tasks"}

Statements ==
    {lead \o body \o trail :
        lead \in {"", "  ", "\n\t"}, body \in StatementBodies, trail \in {"", " \n"}}

\* what the backend may answer a free-form statement with
QueryResults == {<<>>, <<[count |-> 2]>>, <<[count |-> 0], [count |-> 1]>>}

Requests(name, argsets) == {[name |-> name, arguments |-> a] : a \in argsets}

QueryRequests(statements) ==
    Requests("execute_query", {NoArgs} \cup {("query" :> q) : q \in statements})

TaskRequests ==
    Requests("list_tasks",
        {NoArgs} \cup {("status" :> s) : s \in StatusInputs \cup {"pending", ""}})
    \cup Requests("get_task", {NoArgs} \cup {("task_id" :> i) : i \in TaskIdInputs})
    \cup Requests("create_task",
        {NoArgs, ("priority" :> "high"), ("title" :> "T"),
         ("title" :> "T") @@ ("priority" :> "bogus"),
         ("title" :> "T") @@ ("description" :> "D") @@ ("priority" :> "high")
            @@ ("assigned_to" :> "bob") @@ ("tags" :> <<"x", "y">>)})
    \cup Requests("update_task_status",
        {NoArgs, ("task_id" :> 1), ("status" :> "completed")}
        \cup {("task_id" :> i) @@ ("status" :> s) :
                 i \in TaskIdInputs, s \in StatusInputs})
    \cup Requests("delete_task", {NoArgs} \cup {("task_id" :> i) : i \in TaskIdInputs})
    \cup Requests("add_task_comment",
        {NoArgs, ("task_id" :> 1), ("comment" :> "c"), ("author" :> "amy"),
         ("task_id" :> 1) @@ ("comment" :> "c"),
         ("task_id" :> 1) @@ ("comment" :> "c") @@ ("author" :> "amy")})
    \cup Requests("get_task_comments", {NoArgs, ("task_id" :> 1), ("task_id" :> 2)})
    \cup Requests("list_categories", {NoArgs, ("extra" :> "x")})
    \cup Requests("get_schema", {NoArgs})
    \cup Requests("drop_tasks", {NoArgs, ("task_id" :> 1)})
    \cup Requests("LIST_TASKS", {NoArgs})
    \cup Requests("", {NoArgs})

\* every tool, with few statements
ToolRequests == TaskRequests \cup QueryRequests({"SELECT * FROM tasks", "DELETE FROM tasks"})

\* the free-form query tool, with every statement
GuardRequests == QueryRequests(Statements)

\* the requests that fill the tables a resource reads
SeedRequests ==
    Requests("create_task", {("title" :> "T")})
    \cup Requests("update_task_status",
            {("task_id" :> 1) @@ ("status" :> s) : s \in StatusInputs})

FewURIs == {"task://all", "task://pending", "schema://database", "schema://bogus"}

ResourceURIs ==
    FewURIs \cup
    {"task://completed", "task://bogus", "task://", "task://pending//x",
     "task://all//x", "task://all/", "task:///all", "schema://", "schema://database/",
     "schema://database//x", "file://x", "task:/all", "TASK://all", "all", ""}

(***************************************************************************)
(* The server, one request at a time.                                      *)
(***************************************************************************)
Db == [pool |-> pool, tasks |-> tasks, nextId |-> nextId, comments |-> comments]

Dispatches == 1..(max_size + ExtraDispatches)

NoRequest == [kind |-> "none"]

NoResponse == [raised |-> FALSE, text |-> ""]

\* run() has not been called
NotRunning == [stage |-> "init", starts |-> 0, loops |-> 0, stops |-> 0, exit |-> "none"]

Init ==
    /\ pool = "None"
    /\ tasks = [i \in {} |-> None]
    /\ nextId = 1
    /\ comments = <<>>
    /\ request = NoRequest
    /\ response = NoResponse
    /\ dbCalls = <<>>
    /\ pc = [p \in Dispatches |-> "idle"]
    /\ held = [p \in Dispatches |-> 0]
    /\ inUse = 0
    /\ run = NotRunning

\* TaskDatabase.connect succeeds
Connect ==
    /\ pool = "None"
    /\ request = NoRequest
    /\ \A p \in Dispatches : pc[p] = "idle"
    /\ pool' = "open"
    /\ UNCHANGED <<tasks, nextId, comments, request, response, dbCalls, pc, held, inUse, run>>

\* the server is waiting for a request, and r is what the handler of req
\* yields: the database is as the handler left it and the transport holds
\* what the handler gave back
Served(req, r) ==
    /\ request = NoRequest
    /\ r.db.nextId <= MaxTasks + 1
    /\ Len(r.db.comments) <= MaxComments
    /\ request' = req
    /\ response' = [raised |-> r.raised, text |-> r.text]
    /\ dbCalls' = r.calls
    /\ tasks' = r.db.tasks
    /\ nextId' = r.db.nextId
    /\ comments' = r.db.comments
    /\ UNCHANGED <<pool, pc, held, inUse, run>>

\* the transport delivers a tools/call request
CallTool(name, arguments, fault, rows) ==
    Served([kind |-> "tool", name |-> name, arguments |-> arguments],
           handle_call_tool(name, arguments, Db, fault, rows))

\* the transport delivers a resources/read request
ReadResource(uri, fault) ==
    Served([kind |-> "resource", uri |-> uri], handle_read_resource(uri, Db, fault))

\* the transport delivers a tools/list request
ListTools ==
    /\ request = NoRequest
    /\ request' = [kind |-> "list_tools"]
    /\ response' = [raised |-> FALSE, text |-> "", tools |-> handle_list_tools]
    /\ dbCalls' = <<>>
    /\ UNCHANGED <<pool, tasks, nextId, comments, pc, held, inUse, run>>

\* the transport has written the response and reads the next request
Reply ==
    /\ request # NoRequest
    /\ request' = NoRequest
    /\ response' = NoResponse
    /\ dbCalls' = <<>>
    /\ UNCHANGED <<pool, tasks, nextId, comments, pc, held, inUse, run>>

CallTools(requests) ==
    \E req \in requests, fault \in Faults :
       \E rows \in (IF req.name = "execute_query" THEN QueryResults ELSE {<<>>}) :
          CallTool(req.name, req.arguments, fault, rows)

ReadResources(uris) ==
    \E uri \in uris, fault \in Faults : ReadResource(uri, fault)

Next ==
    \/ Connect
    \/ CallTools(ToolRequests)
    \/ ReadResources(FewURIs)
    \/ ListTools
    \/ Reply

Spec == Init /\ [][Next]_vars

\* the free-form query tool alone, over every statement
NextGuard ==
    \/ Connect
    \/ CallTools(GuardRequests)
    \/ Reply

SpecGuard == Init /\ [][NextGuard]_vars

\* the resource resolver, over every URI
NextResource ==
    \/ Connect
    \/ CallTools(SeedRequests)
    \/ ReadResources(ResourceURIs)
    \/ Reply

SpecResource == Init /\ [][NextResource]_vars

(***************************************************************************)
(* Dispatches in flight at once.  Each runs one handler, and a handler     *)
(* makes one TaskDatabase call, which is one pass through execute_query or *)
(* execute_command: past the pool check, "async with self.pool.acquire()"  *)
(* takes a connection, waiting for one when max_size are taken, the        *)
(* statement runs on it, and leaving the block gives it back, whether the  *)
(* statement returned or raised.                                           *)
(***************************************************************************)
Take(p) ==
    /\ pc' = [pc EXCEPT ![p] = "fetch"]
    /\ held' = [held EXCEPT ![p] = @ + 1]
    /\ inUse' = inUse + 1

Release(p) ==
    /\ held' = [held EXCEPT ![p] = @ - 1]
    /\ inUse' = inUse - 1

\* pool.acquire() finds a free connection
Acquire(p) ==
    /\ pc[p] = "idle"
    /\ pool # "None"
    /\ inUse < max_size
    /\ Take(p)
    /\ UNCHANGED <<pool, tasks, nextId, comments, request, response, dbCalls, run>>

\* pool.acquire() finds every connection taken and suspends
Wait(p) ==
    /\ pc[p] = "idle"
    /\ pool # "None"
    /\ inUse >= max_size
    /\ pc' = [pc EXCEPT ![p] = "waiting"]
    /\ UNCHANGED <<pool, tasks, nextId, comments, request, response, dbCalls, held, inUse, run>>

\* a connection was given back and a suspended pool.acquire() takes it
Resume(p) ==
    /\ pc[p] = "waiting"
    /\ inUse < max_size
    /\ Take(p)
    /\ UNCHANGED <<pool, tasks, nextId, comments, request, response, dbCalls, run>>

\* conn.fetch / conn.execute returns and the block is left
Fetched(p) ==
    /\ pc[p] = "fetch"
    /\ pc' = [pc EXCEPT ![p] = "idle"]
    /\ Release(p)
    /\ UNCHANGED <<pool, tasks, nextId, comments, request, response, dbCalls, run>>

\* the connection is not given back when the statement raises (mutant)
FailedLeaks(p) ==
    /\ pc[p] = "fetch"
    /\ pc' = [pc EXCEPT ![p] = "idle"]
    /\ UNCHANGED <<pool, tasks, nextId, comments, request, response, dbCalls, held, inUse, run>>

\* conn.fetch / conn.execute raises: logged, re-raised through the block
Failed(p) ==
    /\ pc[p] = "fetch"
    /\ pc' = [pc EXCEPT ![p] = "idle"]
    /\ Release(p)
    /\ UNCHANGED <<pool, tasks, nextId, comments, request, response, dbCalls, run>>

NextPool ==
    \/ Connect
    \/ \E p \in Dispatches : Acquire(p)
    \/ \E p \in Dispatches : Wait(p)
    \/ \E p \in Dispatches : Resume(p)
    \/ \E p \in Dispatches : Fetched(p)
    \/ \E p \in Dispatches : Failed(p)

SpecPool == Init /\ [][NextPool]_vars

(***************************************************************************)
(* The input contracts handle_list_tools declares.                         *)
(***************************************************************************)
RequiredFields(name) ==
    CASE name = "get_task" -> {"task_id"}
      [] name = "create_task" -> {"title"}
      [] name = "update_task_status" -> {"task_id", "status"}
      [] name = "delete_task" -> {"task_id"}
      [] name = "add_task_comment" -> {"task_id", "comment"}
      [] name = "get_task_comments" -> {"task_id"}
      [] name = "execute_query" -> {"query"}
      [] OTHER -> {}

StatusEnum == {"pending", "in_progress", "completed", "cancelled"}

PriorityEnum == {"low", "medium", "high", "urgent"}

\* the values the request gives outside the enumeration its field declares
EnumViolations(name, arguments) ==
    {f \in DOMAIN arguments :
        \/ name \in {"list_tasks", "update_task_status"} /\ f = "status"
           /\ arguments[f] \notin StatusEnum
        \/ name = "create_task" /\ f = "priority" /\ arguments[f] \notin PriorityEnum}

(***************************************************************************)
(* What the claims speak of.                                               *)
(***************************************************************************)
IsTool(name) == request.kind = "tool" /\ request.name = name

IsResource == request.kind = "resource"

\* the handler returned text (nothing propagated to the transport)
Returned == ~response.raised

\* the text is a failure: "Error: ..." or the query tool's failure sentence
IsFailure ==
    /\ Returned
    /\ \/ startswith(response.text, "Error: ")
       \/ startswith(response.text, "Query execution failed: ")

\* the request made exactly one TaskDatabase call, op(args)
OneCall(op, args) ==
    /\ Len(dbCalls) = 1
    /\ dbCalls[1].op = op
    /\ dbCalls[1].args = args

\* every TaskDatabase call of the request was answered without an exception
NoCallRaised == \A i \in 1..Len(dbCalls) : dbCalls[i].exc = NoFault

\* the backend failed no statement of the request
NoStorageFault == \A i \in 1..Len(dbCalls) : dbCalls[i].exc \notin StorageFaults

BeginsWithSelect(statement) == startswith(upper(strip(statement)), "SELECT")

(***************************************************************************)
(* C1.  execute_query: a statement that, trimmed and uppercased, does not  *)
(* begin with SELECT is answered with the "Only SELECT" failure and no     *)
(* storage call; one that does is passed to the storage backend exactly    *)
(* once.                                                                   *)
(***************************************************************************)
\* C1 as claimed, on a connected database: a statement that begins with
\* SELECT after trimming and uppercasing makes exactly one storage call, with
\* the statement as passed; any other is refused without a storage call
C1_StorageCalledWithStatementAsPassed ==
    IsTool("execute_query") /\ "query" \in DOMAIN request.arguments
    /\ pool = "open" /\ NoStorageFault =>
        LET statement == request.arguments["query"] IN
        IF BeginsWithSelect(statement)
        THEN OneCall("execute_query", <<statement>>)
        ELSE response.text = OnlySelectText /\ Returned /\ dbCalls = <<>>

\* C1, amended: a statement that does not begin with SELECT after trimming
\* and uppercasing is answered with the "Only SELECT" failure and no storage
\* call; one that does makes exactly one storage call, with the trimmed
\* statement
C1_GuardThenOneCallWithTrimmedStatement ==
    IsTool("execute_query") /\ "query" \in DOMAIN request.arguments =>
        LET statement == request.arguments["query"] IN
        IF BeginsWithSelect(statement)
        THEN OneCall("execute_query", <<strip(statement)>>)
        ELSE response.text = OnlySelectText /\ Returned /\ dbCalls = <<>>

\* a lower-case select between whitespace reached the storage backend, trimmed
C1_Witness ==
    /\ IsTool("execute_query")
    /\ request.arguments = ("query" :> "\n\tselect 1 \n")
    /\ OneCall("execute_query", <<"select 1">>)

(***************************************************************************)
(* C2.  For every tool, an exception raised by the storage call of a       *)
(* dispatch comes back as failure text carrying the exception's message;   *)
(* nothing propagates out of handle_call_tool, and the server takes the    *)
(* next request.                                                           *)
(***************************************************************************)
\* C2: a tool request always returns text, the server then takes the next
\* request, and a TaskDatabase call that raised is answered with the message
\* of its exception behind "Error: " ("Query execution failed: " for
\* execute_query)
C2_StorageFaultsBecomeFailureText ==
    request.kind = "tool" =>
        /\ Returned
        /\ ENABLED Reply
        /\ \A i \in 1..Len(dbCalls) :
              dbCalls[i].exc # NoFault =>
                 /\ IsFailure
                 /\ response.text =
                       (IF request.name = "execute_query"
                        THEN "Query execution failed: " ELSE "Error: ")
                       \o dbCalls[i].exc.msg

\* the backend failed an UPDATE and the dispatch answered with the message
C2_Witness ==
    /\ IsTool("update_task_status")
    /\ Len(dbCalls) = 1
    /\ dbCalls[1].exc \in StorageFaults
    /\ response.text = "Error: connection is closed"

(***************************************************************************)
(* C3.  A dispatch of a tool with required fields that omits any of them   *)
(* returns a failure and makes no storage call.                            *)
(***************************************************************************)
\* C3: a tool request that omits required fields is answered "Error: '<field>'"
\* for one of them, and makes no TaskDatabase call
C3_MissingRequiredFieldFailsBeforeStorage ==
    request.kind = "tool" =>
        LET missing == RequiredFields(request.name) \ DOMAIN request.arguments IN
        missing # {} =>
            /\ IsFailure
            /\ \E f \in missing : response.text = "Error: '" \o f \o "'"
            /\ dbCalls = <<>>

\* update_task_status without its status
C3_Witness ==
    /\ IsTool("update_task_status")
    /\ DOMAIN request.arguments = {"task_id"}
    /\ response.text = "Error: 'status'"
    /\ dbCalls = <<>>
    /\ pool = "open"

(***************************************************************************)
(* C4.  A name that is not one of the ten tools is answered with the       *)
(* failure "Unknown tool: <name>" and no storage call.                     *)
(***************************************************************************)
\* C4: a request for a name outside the ten tools is answered
\* "Error: Unknown tool: <name>" and makes no TaskDatabase call
C4_UnknownToolFailsWithName ==
    request.kind = "tool" /\ request.name \notin ToolNames =>
        /\ IsFailure
        /\ response.text = "Error: Unknown tool: " \o request.name
        /\ Contains(response.text, request.name)
        /\ dbCalls = <<>>

C4_Witness ==
    /\ IsTool("drop_tasks")
    /\ response.text = "Error: Unknown tool: drop_tasks"
    /\ pool = "open"

(***************************************************************************)
(* C5.  A value outside the enumeration its field declares (status of      *)
(* list_tasks and update_task_status, priority of create_task) is answered *)
(* with a failure, and the storage operation is not invoked.               *)
(***************************************************************************)
\* C5 as claimed, on a connected database whose backend fails no statement:
\* a request with a value outside its field's enumeration is answered with a
\* failure and makes no TaskDatabase call
C5_EnumerationsCheckedBeforeStorage ==
    request.kind = "tool" /\ request.name \in ToolNames
    /\ pool = "open" /\ NoStorageFault =>
        (EnumViolations(request.name, request.arguments) # {} =>
            IsFailure /\ dbCalls = <<>>)

(***************************************************************************)
(* C6.  With dispatches running at once, a storage call holds exactly one  *)
(* pooled connection while its statement runs and none before or after,    *)
(* whether the statement returned or raised: the connections in use are    *)
(* those of the calls in progress, never more than max_size, and a         *)
(* dispatch that is not inside a storage call holds none.                  *)
(***************************************************************************)
RECURSIVE SumHeld(_)
SumHeld(S) ==
    IF S = {} THEN 0
    ELSE LET p == CHOOSE q \in S : TRUE IN held[p] + SumHeld(S \ {p})

\* C6: at most max_size connections are in use, they are those the dispatches
\* hold, and a dispatch holds one while its statement runs and none otherwise
C6_OneConnectionPerStorageCall ==
    /\ inUse <= max_size
    /\ inUse = SumHeld(Dispatches)
    /\ \A p \in Dispatches : held[p] = (IF pc[p] = "fetch" THEN 1 ELSE 0)

\* every connection is taken, one dispatch waits for one and another is done
C6_Witness ==
    /\ inUse = max_size
    /\ \E p \in Dispatches : pc[p] = "waiting" /\ held[p] = 0
    /\ Cardinality({p \in Dispatches : pc[p] = "fetch" /\ held[p] = 1}) = max_size

(***************************************************************************)
(* C7.  Reading a task resource makes exactly one storage call: the        *)
(* unfiltered listing for the path "all", and for any other path the       *)
(* status-filtered listing with the path as the filter value, whether or   *)
(* not it is a status of the enumeration.                                  *)
(***************************************************************************)
\* what follows "task://"
TaskPath(uri) == SubSeq(uri, Len("task://") + 1, Len(uri))

\* C7 as claimed: a task URI makes one storage call, the unfiltered listing
\* when its path is "all" and otherwise the listing filtered by its path
C7_PathPassedThroughUnchanged ==
    IsResource /\ startswith(request.uri, "task://") /\ pool = "open" =>
        IF TaskPath(request.uri) = "all"
        THEN OneCall("get_all_tasks", <<>>)
        ELSE OneCall("get_tasks_by_status", <<TaskPath(request.uri)>>)

\* C7, amended: a task URI makes one storage call, and the path up to its first "//" decides: "all" gives the
\* unfiltered listing and anything else is passed through as the filter value
C7_PathUpToDoubleSlashPassedThrough ==
    IsResource /\ startswith(request.uri, "task://") =>
        LET segment == split(TaskPath(request.uri), "//")[1] IN
        IF segment = "all"
        THEN OneCall("get_all_tasks", <<>>)
        ELSE OneCall("get_tasks_by_status", <<segment>>)

\* a status outside the enumeration filters the listing of a filled table
C7_Witness ==
    /\ IsResource
    /\ request.uri = "task://bogus"
    /\ OneCall("get_tasks_by_status", <<"bogus">>)
    /\ NoCallRaised
    /\ \E i \in DOMAIN tasks : tasks[i].status = "bogus"
    /\ response.text # "[]"

(***************************************************************************)
(* C8.  A URI that is neither a task URI nor the schema resource is        *)
(* answered with the failure text "Unknown resource: <uri>" and no storage *)
(* call, and a fault while a resource is read comes back as failure text.  *)
(***************************************************************************)
\* C8: a resource request always returns text; a URI that is neither a task
\* URI nor "schema://database" is answered "Error reading resource: Unknown
\* resource: <uri>" without a TaskDatabase call; a TaskDatabase call that raised
\* is answered with its message behind "Error reading resource: "
C8_UnknownResourceFails ==
    IsResource =>
        /\ Returned
        /\ (~startswith(request.uri, "task://") /\ request.uri # "schema://database" =>
              /\ response.text = "Error reading resource: Unknown resource: "
                                 \o request.uri
              /\ dbCalls = <<>>)
        /\ \A i \in 1..Len(dbCalls) :
              dbCalls[i].exc # NoFault =>
                 response.text = "Error reading resource: " \o dbCalls[i].exc.msg

C8_Witness ==
    /\ IsResource
    /\ request.uri = "schema://bogus"
    /\ response.text = "Error reading resource: Unknown resource: schema://bogus"
    /\ pool = "open"

(***************************************************************************)
(* C9.  Every URI of the schema scheme is answered with the full schema    *)
(* catalogue, whatever its path.                                           *)
(***************************************************************************)
\* the catalogue as the schema resource serializes it
SchemaJson == json_dumps(JObj(JSchemaItems(GroupByTable(ColumnsCatalog))), "")

\* C9 as claimed: on a connected database whose backend fails no statement,
\* every URI of the schema scheme is answered with the serialized catalogue
C9_AnySchemaPathGivesCatalogue ==
    IsResource /\ startswith(request.uri, "schema://") /\ pool = "open" =>
        \/ ~NoCallRaised
        \/ response.text = SchemaJson

\* C9, amended: of the URIs of the schema scheme, "schema://database" alone is
\* answered with the full catalogue; every other one is answered with
\* "Unknown resource: <uri>" and no storage call
C9_OnlySchemaDatabaseGivesCatalogue ==
    IsResource /\ startswith(request.uri, "schema://") /\ pool = "open" =>
        IF request.uri = "schema://database"
        THEN /\ OneCall("get_database_schema", <<>>)
             /\ NoCallRaised => response.text = SchemaJson
        ELSE /\ dbCalls = <<>>
             /\ response.text = "Error reading resource: Unknown resource: "
                                \o request.uri

C9_Witness ==
    /\ IsResource
    /\ request.uri = "schema://database//x"
    /\ pool = "open"
    /\ dbCalls = <<>>
    /\ response.text # SchemaJson

(***************************************************************************)
(* C10.  get_task for an identifier no stored task has returns, after      *)
(* exactly one storage lookup, the text "Task with ID <id> not found.",    *)
(* which is not an "Error: " response.                                     *)
(***************************************************************************)
\* C10: on a connected database whose backend fails no statement, get_task
\* for an identifier no task has makes the one call get_task_by_id(id) and
\* returns "Task with ID <id> not found.", which is no failure text
C10_MissingTaskIsNotFoundText ==
    /\ IsTool("get_task")
    /\ "task_id" \in DOMAIN request.arguments
    /\ request.arguments["task_id"] \notin DOMAIN tasks
    /\ pool = "open"
    /\ NoStorageFault
    => /\ OneCall("get_task_by_id", <<request.arguments["task_id"]>>)
       /\ Returned
       /\ response.text = "Task with ID " \o ToString(request.arguments["task_id"])
                          \o " not found."
       /\ ~IsFailure

\* task 1 was deleted, task 2 is stored, and task 1 is asked for
C10_Witness ==
    /\ IsTool("get_task")
    /\ request.arguments = ("task_id" :> 1)
    /\ DOMAIN tasks = {2}
    /\ response.text = "Task with ID 1 not found."

(***************************************************************************)
(* C11.  create_task with only a title calls TaskDatabase.create_task with *)
(* priority "medium" and no tags, add_task_comment without an author calls *)
(* add_task_comment with "Anonymous"; a priority, tags or author the       *)
(* request gives is passed as given; the text of a task created by default *)
(* has the line "Priority: medium".                                        *)
(***************************************************************************)
\* what the request gives for a field, or the default
GivenOr(field, default) ==
    IF field \in DOMAIN request.arguments THEN request.arguments[field] ELSE default

\* the newest stored task
NewestTask == tasks[Max(DOMAIN tasks)]

\* C11: create_task makes one create_task call whose priority and tags are
\* those of the request, "medium" and the empty list when absent, and when the
\* backend executes it the stored record has them and the text shows the
\* priority on its own line; add_task_comment makes one add_task_comment call
\* whose author is that of the request, "Anonymous" when absent
C11_DefaultsAndPassThrough ==
    /\ IsTool("create_task") /\ "title" \in DOMAIN request.arguments
       => /\ Len(dbCalls) = 1
          /\ dbCalls[1].op = "create_task"
          /\ dbCalls[1].args[1] = request.arguments["title"]
          /\ dbCalls[1].args[3] = GivenOr("priority", "medium")
          /\ dbCalls[1].args[5] = GivenOr("tags", <<>>)
          /\ pool = "open" /\ NoStorageFault
             => /\ NewestTask.priority = GivenOr("priority", "medium")
                /\ NewestTask.tags = GivenOr("tags", <<>>)
                /\ Contains(response.text,
                       "\nPriority: " \o GivenOr("priority", "medium") \o "\n")
    /\ IsTool("add_task_comment")
       /\ {"task_id", "comment"} \subseteq DOMAIN request.arguments
       => /\ OneCall("add_task_comment",
                <<request.arguments["task_id"], request.arguments["comment"],
                  GivenOr("author", "Anonymous")>>)
          /\ pool = "open" /\ NoStorageFault
             => comments[Len(comments)].author = GivenOr("author", "Anonymous")

\* a task created from a title alone, and shown with the default priority
C11_Witness ==
    /\ IsTool("create_task")
    /\ request.arguments = ("title" :> "T")
    /\ pool = "open"
    /\ NewestTask.priority = "medium"
    /\ NewestTask.tags = <<>>
    /\ Contains(response.text, "\nPriority: medium\n")

(***************************************************************************)
(* C12.  The read tools (list_tasks, get_task, get_task_comments,          *)
(* list_categories, get_schema) leave the stored state as it is, so the    *)
(* same request repeated gets the same text; create_task is not            *)
(* deduplicated: every successful create_task adds a record of its own.    *)
(***************************************************************************)
ReadTools ==
    {"list_tasks", "get_task", "get_task_comments", "list_categories", "get_schema"}

\* the step serves a request of one of the tools named
Serves(names) ==
    /\ request = NoRequest
    /\ request'.kind = "tool"
    /\ request'.name \in names

\* C12: a step that serves a read tool leaves tasks, comments and the id
\* sequence unchanged, and the same request on the state it leaves gets the
\* text it got; a step that serves create_task on a connected database whose
\* backend executes the insert makes one create_task call and adds one record,
\* under an id no stored task has, keeping every stored task
C12_ReadsKeepStateCreatesAddRecords ==
    [][ /\ Serves(ReadTools)
           => /\ UNCHANGED <<tasks, nextId, comments>>
              /\ pool = "open" /\ NoStorageFault'
                 => handle_call_tool(request'.name, request'.arguments,
                                     Db', NoFault, <<>>).text = response'.text
        /\ Serves({"create_task"}) /\ "title" \in DOMAIN request'.arguments
           /\ pool = "open" /\ NoStorageFault'
           => /\ Len(dbCalls') = 1 /\ dbCalls'[1].op = "create_task"
              /\ startswith(response'.text, "Task created successfully!")
              /\ Cardinality(DOMAIN tasks') = Cardinality(DOMAIN tasks) + 1
              /\ \A i \in DOMAIN tasks : i \in DOMAIN tasks' /\ tasks'[i] = tasks[i]
              /\ \A i \in DOMAIN tasks' \ DOMAIN tasks :
                    tasks'[i].title = request'.arguments["title"]
      ]_vars

\* the same create_task request was served twice and two records are stored,
\* alike in all but their id and what follows from it
C12_Witness ==
    /\ IsTool("create_task")
    /\ request.arguments = ("title" :> "T")
    /\ DOMAIN tasks = {1, 2}
    /\ tasks[1].status = "pending"
    /\ [tasks[1] EXCEPT !.id = 2, !.created_at = 2, !.updated_at = 2] = tasks[2]

(***************************************************************************)
(* TaskDatabase used directly, one method at a time, as                    *)
(* tests/test_database.py uses it.                                         *)
(***************************************************************************)
\* the client is between two calls, and r is what the method called yields
DbCalled(op, args, r) ==
    /\ request = NoRequest
    /\ r.db.nextId <= MaxTasks + 1
    /\ Len(r.db.comments) <= MaxComments
    /\ request' = [kind |-> "db", op |-> op, args |-> args]
    /\ response' = [raised |-> r.raised, exc |-> r.exc, value |-> r.value]
    /\ pool' = r.db.pool
    /\ tasks' = r.db.tasks
    /\ nextId' = r.db.nextId
    /\ comments' = r.db.comments
    /\ UNCHANGED <<dbCalls, pc, held, inUse, run>>

DbConnect ==
    \E fault \in {NoFault} \cup ConnectFaults :
       DbCalled("connect", <<>>, connect(Db, fault))

DbDisconnect == DbCalled("disconnect", <<>>, disconnect(Db))

DbCreateTask ==
    \E fault \in Faults :
       DbCalled("create_task", <<"T", None, "high", None, None, <<>>>>,
                create_task(Db, fault, "T", None, "high", None, None, <<>>))

DbGetAllTasks ==
    \E fault \in Faults : DbCalled("get_all_tasks", <<>>, get_all_tasks(Db, fault))

DbGetTaskById ==
    \E fault \in Faults, id \in TaskIdInputs :
       DbCalled("get_task_by_id", <<id>>, get_task_by_id(Db, fault, id))

DbGetTasksByStatus ==
    \E fault \in Faults, s \in StatusInputs \cup {"pending"} :
       DbCalled("get_tasks_by_status", <<s>>, get_tasks_by_status(Db, fault, s))

DbUpdateTaskStatus ==
    \E fault \in Faults, id \in TaskIdInputs, s \in StatusInputs :
       DbCalled("update_task_status", <<id, s>>, update_task_status(Db, fault, id, s))

DbDeleteTask ==
    \E fault \in Faults, id \in TaskIdInputs :
       DbCalled("delete_task", <<id>>, delete_task(Db, fault, id))

\* the tasks the client comments on
CommentedIds == {1, 2}

DbAddTaskComment ==
    \E fault \in Faults, id \in CommentedIds :
       DbCalled("add_task_comment", <<id, "c", "amy">>,
                add_task_comment(Db, fault, id, "c", "amy"))

DbGetTaskComments ==
    \E fault \in Faults, id \in TaskIdInputs :
       DbCalled("get_task_comments", <<id>>, get_task_comments(Db, fault, id))

DbGetAllCategories ==
    \E fault \in Faults :
       DbCalled("get_all_categories", <<>>, get_all_categories(Db, fault))

DbGetDatabaseSchema ==
    \E fault \in Faults :
       DbCalled("get_database_schema", <<>>, get_database_schema(Db, fault))

NextDatabase ==
    \/ DbConnect
    \/ DbDisconnect
    \/ DbCreateTask
    \/ DbGetAllTasks
    \/ DbGetTaskById
    \/ DbGetTasksByStatus
    \/ DbUpdateTaskStatus
    \/ DbDeleteTask
    \/ DbAddTaskComment
    \/ DbGetTaskComments
    \/ DbGetAllCategories
    \/ DbGetDatabaseSchema
    \/ Reply

SpecDatabase == Init /\ [][NextDatabase]_vars

(***************************************************************************)
(* C13.  Through any sequence of TaskDatabase calls: a task create_task    *)
(* returned is returned by get_task_by_id under its id, and by             *)
(* get_tasks_by_status(s) once update_task_status(id, s) returned true,    *)
(* until delete_task(id) returns true; a comment add_task_comment returned *)
(* is returned by get_task_comments for its task; delete_task returns true *)
(* for a task that exists.                                                 *)
(***************************************************************************)
\* the database as a connected client finds it
Open(d) == [d EXCEPT !.pool = "open"]

\* the step is a call of the TaskDatabase method op
DbStep(op) ==
    /\ request = NoRequest
    /\ request'.kind = "db"
    /\ request'.op = op

\* the step is a call of op that returned
DbReturned(op) ==
    /\ DbStep(op)
    /\ ~response'.raised

\* the step is a call of op that returned a row
DbGave(op) ==
    /\ DbReturned(op)
    /\ response'.value # None

\* the step is update_task_status(id, s) returning true
UpdatedNow(id, s) ==
    /\ DbReturned("update_task_status")
    /\ request'.args = <<id, s>>
    /\ response'.value = TRUE

\* the step is delete_task(id) returning true
DeletedNow(id) ==
    /\ DbReturned("delete_task")
    /\ request'.args = <<id>>
    /\ response'.value = TRUE

Rows(seq) == {seq[i] : i \in 1..Len(seq)}

\* get_task_by_id(id) returns a task, and it has that id
Found(d, id) ==
    LET task == get_task_by_id(Open(d), NoFault, id).value
    IN task # None /\ task[1].id = id

\* get_tasks_by_status(s) returns the task id
Listed(d, id, s) ==
    \E row \in Rows(get_tasks_by_status(Open(d), NoFault, s).value) : row.id = id

\* the comments get_task_comments(id) returns
CommentsOf(d, id) == Rows(get_task_comments(Open(d), NoFault, id).value)

AnyStatus == StatusInputs \cup {"pending"}

Catalogue ==
    {"list_tasks", "get_task", "create_task", "update_task_status", "delete_task",
     "add_task_comment", "get_task_comments", "list_categories", "execute_query",
     "get_schema"}

\* the TaskDatabase methods the handler of a tool calls
OwnCalls(name) ==
    CASE name = "list_tasks" -> {"get_all_tasks", "get_tasks_by_status"}
      [] name = "get_task" -> {"get_task_by_id"}
      [] name = "create_task" -> {"create_task"}
      [] name = "update_task_status" -> {"update_task_status"}
      [] name = "delete_task" -> {"delete_task"}
      [] name = "add_task_comment" -> {"add_task_comment"}
      [] name = "get_task_comments" -> {"get_task_comments"}
      [] name = "list_categories" -> {"get_all_categories"}
      [] name = "execute_query" -> {"execute_query"}
      [] name = "get_schema" -> {"get_database_schema"}
      [] OTHER -> {}

\* the names the registry lists, as handle_list_tools returns them
Registered == {handle_list_tools[i].name : i \in 1..Len(handle_list_tools)}

\* C14: a tools/list response has ten entries, with pairwise different names,
\* those of the catalogue; a tools/call request is answered "Unknown tool"
\* exactly when its name is not registered, then without a TaskDatabase call;
\* a registered tool whose required fields are given (and whose statement
\* passes the guard) makes one call, of a method of its own handler
C14_RegistryIsTheCatalogueAndIsDispatched ==
    /\ request.kind = "list_tools"
       => /\ Len(response.tools) = 10
          /\ \A i, j \in 1..Len(response.tools) :
                response.tools[i].name = response.tools[j].name => i = j
          /\ {response.tools[i].name : i \in 1..Len(response.tools)} = Catalogue
    /\ request.kind = "tool"
       => /\ request.name \in Registered
             <=> response.text # "Error: Unknown tool: " \o request.name
          /\ request.name \notin Registered => dbCalls = <<>>
          /\ \A i \in 1..Len(dbCalls) : dbCalls[i].op \in OwnCalls(request.name)
          /\ /\ request.name \in Registered
             /\ RequiredFields(request.name) \subseteq DOMAIN request.arguments
             /\ request.name = "execute_query"
                => BeginsWithSelect(request.arguments["query"])
             => Len(dbCalls) = 1

\* the last tool of the registry was called and its handler fetched the schema
C14_Witness ==
    /\ IsTool("get_schema")
    /\ pool = "open"
    /\ OneCall("get_database_schema", <<>>)
    /\ startswith(response.text, "Database Schema:")

(***************************************************************************)
(* C15.  The human-readable renderings (list_tasks, get_task,              *)
(* list_categories) show an absent optional field (description,            *)
(* assigned_to, categories, tags, due_date) as a placeholder on its line,  *)
(* so a record has the same lines whatever optional fields are absent.     *)
(***************************************************************************)
\* how many lines of the text begin with the label
LinesOf(text, label) ==
    LET start == "\n" \o label \o ": "
    IN Cardinality({i \in 1..(Len(text) - Len(start) + 1) :
                       SubSeq(text, i, i + Len(start) - 1) = start})

\* the tasks list_tasks lists for the request
ListedIds ==
    {i \in DOMAIN tasks :
        Truthy(Get(request.arguments, "status"))
           => tasks[i].status = request.arguments["status"]}

\* C15 as claimed: when the backend executes the statement, every task
\* list_tasks lists has each of its lines, the task get_task shows has each of
\* its lines, and every category has each of its lines
C15_AbsentFieldsKeepTheirLine ==
    pool = "open" /\ NoStorageFault =>
    /\ IsTool("list_tasks")
       => \A label \in {"ID", "Title", "Status", "Priority", "Assigned to",
                        "Categories", "Created"} :
             LinesOf(response.text, label) = Cardinality(ListedIds)
    /\ IsTool("get_task") /\ "task_id" \in DOMAIN request.arguments
       /\ request.arguments["task_id"] \in DOMAIN tasks
       => \A label \in {"ID", "Title", "Description", "Status", "Priority",
                        "Assigned to", "Categories", "Tags", "Created", "Updated",
                        "Due date"} :
             LinesOf(response.text, label) = 1
    /\ IsTool("list_categories")
       => \A label \in {"ID", "Name", "Description", "Color"} :
             LinesOf(response.text, label) = Len(CategoriesTable)

(***************************************************************************)
(* C16.  get_schema: the response, parsed as JSON, is the mapping from     *)
(* table name to the ordered list of column descriptors (name, type,       *)
(* nullable, default) that get_database_schema gave the renderer.          *)
(***************************************************************************)
\* the characters a JSON document can begin with
JsonStarts ==
    {"{", "[", "\"", "-", "0", "1", "2", "3", "4", "5", "6", "7", "8", "9",
     "t", "f", "n"}

\* the schemas of the model, as JSON values
SchemaDocuments == { JObj(JSchemaItems(GroupByTable(ColumnsCatalog))) }

\* parsing a text as JSON: it fails on a text that does not begin with a
\* value, and it gives the schema whose serialization the text is
json_loads(text) ==
    LET s == lstrip(text) IN
    IF s = "" \/ SubSeq(s, 1, 1) \notin JsonStarts
    THEN [raised |-> TRUE, value |-> JNull]
    ELSE [raised |-> FALSE,
          value |-> CHOOSE v \in SchemaDocuments : json_dumps(v, "") = rstrip(s)]

\* C16 as claimed: when the backend executes the statement, the response of
\* get_schema parses as JSON, to the schema get_database_schema returned
C16_GetSchemaResponseParsesToTheSchema ==
    IsTool("get_schema") /\ pool = "open" /\ NoStorageFault
    => LET parsed == json_loads(response.text)
       IN /\ ~parsed.raised
          /\ parsed.value = JObj(JSchemaItems(GroupByTable(ColumnsCatalog)))

(***************************************************************************)
(* MCPTaskServer.run: start(), then the transport loop inside try, then    *)
(* stop() in the finally clause.                                           *)
(***************************************************************************)
\* await self.start() returns: the database is connected, and the try block
\* is entered with the transport loop
StartReturns ==
    /\ run.stage = "init"
    /\ LET r == connect(Db, NoFault) IN pool' = r.db.pool
    /\ run' = [run EXCEPT !.stage = "loop", !.starts = @ + 1, !.loops = @ + 1]
    /\ UNCHANGED <<tasks, nextId, comments, request, response, dbCalls, pc, held, inUse>>

\* await self.start() raises what connect() re-raised: run() is left before
\* its try block
StartRaises ==
    /\ run.stage = "init"
    /\ \E fault \in ConnectFaults :
          LET r == connect(Db, fault) IN r.raised /\ pool' = r.db.pool
    /\ run' = [run EXCEPT !.stage = "raised", !.exit = "start"]
    /\ UNCHANGED <<tasks, nextId, comments, request, response, dbCalls, pc, held, inUse>>

\* self.server.run(...) returns (the client closed the stream)
LoopReturns ==
    /\ run.stage = "loop"
    /\ request = NoRequest
    /\ run' = [run EXCEPT !.stage = "finally", !.exit = "normal"]
    /\ UNCHANGED <<pool, tasks, nextId, comments, request, response, dbCalls, pc, held, inUse>>

\* the loop is left by an exception and no finally clause runs (mutant)
LoopRaises_without_finally ==
    /\ run.stage = "loop"
    /\ run' = [run EXCEPT !.stage = "raised", !.exit = "exception"]
    /\ UNCHANGED <<pool, tasks, nextId, comments, request, response, dbCalls, pc, held, inUse>>

\* stdio_server() or self.server.run(...) raises, or run() is cancelled
LoopRaises ==
    /\ run.stage = "loop"
    /\ run' = [run EXCEPT !.stage = "finally", !.exit = "exception"]
    /\ UNCHANGED <<pool, tasks, nextId, comments, request, response, dbCalls, pc, held, inUse>>

\* finally: await self.stop(), then run() returns or the exception goes on
Stop ==
    /\ run.stage = "finally"
    /\ LET r == disconnect(Db) IN pool' = r.db.pool
    /\ run' = [run EXCEPT !.stage = IF run.exit = "normal" THEN "returned" ELSE "raised",
                          !.stops = @ + 1]
    /\ UNCHANGED <<tasks, nextId, comments, request, response, dbCalls, pc, held, inUse>>

\* the transport loop: requests are served while it runs
Loop ==
    /\ run.stage = "loop"
    /\ \/ CallTools(SeedRequests)
       \/ ReadResources(FewURIs)
       \/ ListTools
       \/ Reply

NextRun ==
    \/ StartReturns
    \/ StartRaises
    \/ Loop
    \/ LoopReturns
    \/ LoopRaises
    \/ Stop

SpecRun == Init /\ [][NextRun]_vars

\* the finally clause is executed once the try block is left
SpecRunFair == SpecRun /\ WF_vars(Stop)

(***************************************************************************)
(* C17.  run(): once start() has succeeded, stop() is executed exactly     *)
(* once on every way out of the transport loop, by return or by exception; *)
(* if start() fails the loop is never entered and stop() is not called;    *)
(* disconnect() on a database that was never connected does nothing.       *)
(***************************************************************************)
\* run() is over
RunLeft == run.stage \in {"returned", "raised"}

\* what holds of run() in every state
RunLifecycle ==
    /\ run.stops <= 1
    /\ run.stops = 1 => run.starts = 1 /\ RunLeft /\ pool = "closed"
    /\ RunLeft /\ run.starts = 1 => run.stops = 1
    /\ run.exit = "start" => run.starts = 0 /\ run.loops = 0 /\ run.stops = 0
                             /\ pool = "None" /\ request = NoRequest
    /\ run.stage = "loop" => run.starts = 1 /\ pool = "open"
    /\ request # NoRequest => run.loops = 1
    /\ pool = "None" => disconnect(Db) = DbReturn(None, Db)

\* C17: in every state, stop() was called at most once, and once when run() is
\* over after start() returned; never when start() raised, and then the loop
\* was not entered and no request was served; disconnect() of the database
\* that was never connected returns leaving it as it is; and when the loop is
\* left, by return or by exception, stop() is eventually called and run() over
C17_StopOnceAfterStartOnEveryExit ==
    /\ []RunLifecycle
    /\ [][run.stops' # run.stops => run.stage = "finally" /\ pool = "open"
                                    /\ pool' = "closed"]_vars
    /\ (run.stage = "finally") ~> (RunLeft /\ run.stops = 1)

\* a request was served, the loop was left by an exception, and stop() has
\* closed the pool
C17_Witness ==
    /\ run = [stage |-> "raised", starts |-> 1, loops |-> 1, stops |-> 1,
              exit |-> "exception"]
    /\ pool = "closed"
    /\ DOMAIN tasks = {1}

(***************************************************************************)
(* C18.  While the database was never connected (pool is unset), every     *)
(* storage operation fails with "Database not connected", acquiring no     *)
(* connection and issuing no statement, and the tool that attempted it     *)
(* returns a failure text instead of propagating.                          *)
(***************************************************************************)
NotConnected == Exc("RuntimeError", "Database not connected")

\* the tool request was served on the unconnected database and called
\* TaskDatabase
CalledUnconnected ==
    /\ pool = "None"
    /\ request.kind = "tool"
    /\ dbCalls # <<>>

\* C18 as claimed: every TaskDatabase call on the unconnected database raised
\* "Database not connected", the tables are untouched and no connection is
\* taken, and the tool returned "Error: Database not connected"
C18_UnconnectedToolsReturnErrorText ==
    CalledUnconnected
    => /\ \A i \in 1..Len(dbCalls) : dbCalls[i].exc = NotConnected
       /\ DOMAIN tasks = {} /\ comments = <<>> /\ nextId = 1 /\ inUse = 0
       /\ Returned
       /\ response.text = "Error: Database not connected"

\* C18, amended: every TaskDatabase call on the unconnected database raised
\* "Database not connected", the tables are untouched and no connection is
\* taken, and the tool returned "Error: Database not connected", or, from
\* execute_query, "Query execution failed: Database not connected"
C18_UnconnectedToolsReturnFailureText ==
    CalledUnconnected
    => /\ \A i \in 1..Len(dbCalls) : dbCalls[i].exc = NotConnected
       /\ DOMAIN tasks = {} /\ comments = <<>> /\ nextId = 1 /\ inUse = 0
       /\ Returned
       /\ response.text =
             IF request.name = "execute_query"
             THEN "Query execution failed: Database not connected"
             ELSE "Error: Database not connected"

\* create_task was dispatched before connect() and nothing was stored
C18_Witness ==
    /\ pool = "None"
    /\ IsTool("create_task")
    /\ request.arguments = ("title" :> "T")
    /\ Len(dbCalls) = 1
    /\ dbCalls[1].exc = NotConnected
    /\ response.text = "Error: Database not connected"
    /\ DOMAIN tasks = {}

(***************************************************************************)
(* C19.  update_task_status and delete_task report success exactly when    *)
(* the command affected one row; for an id no task has they return false,  *)
(* the stored state stays as it is, and the dispatcher answers "Failed to  *)
(* update task <id> status." / "Failed to delete task <id>.", not an       *)
(* "Error: " text.                                                         *)
(***************************************************************************)
\* the step serves the tool with its required fields on a connected database
\* whose backend executes the command
Commands(name) ==
    /\ Serves({name})
    /\ RequiredFields(name) \subseteq DOMAIN request'.arguments
    /\ pool = "open"
    /\ NoStorageFault'

\* the rows the command's WHERE clause matches
Matching(id) == {i \in DOMAIN tasks : i = id}

UpdatedText(id, s) ==
    "Task " \o ToString(id) \o " status updated to '" \o s \o "' successfully."

UpdateFailedText(id) == "Failed to update task " \o ToString(id) \o " status."

DeletedText(id) == "Task " \o ToString(id) \o " deleted successfully."

DeleteFailedText(id) == "Failed to delete task " \o ToString(id) \o "."

\* C19: a step that serves update_task_status answers with the success
\* sentence exactly when one row matches the id, and then that row alone has
\* the new status; when none matches it answers "Failed to update task <id>
\* status." and leaves the tables as they are.  A step that serves delete_task
\* answers with the success sentence exactly when it removed one row, the one
\* with the id; when none matches it answers "Failed to delete task <id>." and
\* leaves the tables as they are.  Neither answer is an "Error: " text
C19_SuccessIffOneRowAffected ==
    [][ /\ Commands("update_task_status")
           => LET id == request'.arguments["task_id"]
                  s == request'.arguments["status"]
              IN /\ ~response'.raised
                 /\ response'.text = UpdatedText(id, s)
                    <=> Cardinality(Matching(id)) = 1
                 /\ Matching(id) # {}
                    => tasks' = [tasks EXCEPT ![id].status = s]
                 /\ Matching(id) = {}
                    => /\ response'.text = UpdateFailedText(id)
                       /\ ~startswith(response'.text, "Error: ")
                       /\ UNCHANGED <<tasks, nextId, comments>>
        /\ Commands("delete_task")
           => LET id == request'.arguments["task_id"]
              IN /\ ~response'.raised
                 /\ response'.text = DeletedText(id)
                    <=> Cardinality(DOMAIN tasks \ DOMAIN tasks') = 1
                 /\ DOMAIN tasks' = DOMAIN tasks \ {id}
                 /\ \A i \in DOMAIN tasks' : tasks'[i] = tasks[i]
                 /\ Matching(id) = {}
                    => /\ response'.text = DeleteFailedText(id)
                       /\ ~startswith(response'.text, "Error: ")
                       /\ UNCHANGED <<tasks, nextId, comments>>
      ]_vars

\* task 1 is stored and delete_task was asked for an id no task has
C19_Witness ==
    /\ IsTool("delete_task")
    /\ request.arguments = ("task_id" :> MaxTasks + 1)
    /\ pool = "open"
    /\ OneCall("delete_task", <<MaxTasks + 1>>)
    /\ NoCallRaised
    /\ DOMAIN tasks = {1}
    /\ response.text = DeleteFailedText(MaxTasks + 1)

====
